---- MODULE Spec2Model ----
(***************************************************************************)
(* Initialization of the package bob.ip.gabor (bob/ip/gabor/__init__.py).  *)
(*                                                                         *)
(* The module body is a straight-line program of eleven statements that    *)
(* runs inside a fresh module object when the package is first imported.   *)
(* The state is the module's global namespace (an insertion-ordered        *)
(* dictionary), the statement counter, the interpreter's module cache for  *)
(* the package and its submodules, the exception that ended a failed       *)
(* import, and the outcome of the last call made by a client.              *)
(*                                                                         *)
(* The environment (interpreter line, the names held by the native         *)
(* extension, which collaborator cannot be loaded, whether the             *)
(* configuration utility raises) is chosen in Init and never changes.      *)
(***************************************************************************)
EXTENDS Naturals, Sequences, FiniteSets, TLC

\* ---------------------------------------------------------------- bounds
\* Longest native module dictionary drawn in Init.
MaxLibNames == 3
\* Number of times a client imports the package in one process.
MaxImports == 2

VARIABLES
  py,          \* 2 or 3: the interpreter line the package runs under
  broken,      \* the collaborator that cannot be loaded, or "none"
  libDict,     \* names held by the native extension _library, in order
  libHasAll,   \* whether _library defines its own __all__
  utilFails,   \* whether bob.extension.get_config raises
  sysmod,      \* cache entry of the package: "absent", "initializing", "loaded"
  subs,        \* submodules of the package present in the module cache
  ns,          \* globals of the package module: sequence of [name, val]
  pc,          \* index in Program of the next statement, 0 when not running
  done,        \* statements completed by the current execution of the body
  error,       \* exception that ended the last import, <<>> when none
  __all__,     \* the list bound to __all__, <<>> before it is computed
  nimports,    \* imports of the package performed by clients
  result,      \* outcome of the last get_config() call
  lastCall     \* name of the last function a client called

env == <<py, broken, libDict, libHasAll, utilFails>>
vars == <<py, broken, libDict, libHasAll, utilFails, sysmod, subs, ns, pc,
          done, error, __all__, nimports, result, lastCall>>

\* ------------------------------------------------------------- strings
\* Python compares strings code point by code point; the names are kept as
\* strings in the state and spelled out here so that startswith and the
\* ordering used by dir() are computed from their characters.
Upper == <<"A","B","C","D","E","F","G","H","I","J","K","L","M",
           "N","O","P","Q","R","S","T","U","V","W","X","Y","Z">>
Lower == <<"a","b","c","d","e","f","g","h","i","j","k","l","m",
           "n","o","p","q","r","s","t","u","v","w","x","y","z">>

Ord(c) ==
  IF \E i \in 1..Len(Upper) : Upper[i] = c
  THEN 64 + (CHOOSE i \in 1..Len(Upper) : Upper[i] = c)
  ELSE IF c = "_" THEN 95
  ELSE 96 + (CHOOSE i \in 1..Len(Lower) : Lower[i] = c)

Chars(n) ==
  CASE n = "__name__"        -> <<"_","_","n","a","m","e","_","_">>
    [] n = "__doc__"         -> <<"_","_","d","o","c","_","_">>
    [] n = "__package__"     -> <<"_","_","p","a","c","k","a","g","e","_","_">>
    [] n = "__path__"        -> <<"_","_","p","a","t","h","_","_">>
    [] n = "__file__"        -> <<"_","_","f","i","l","e","_","_">>
    [] n = "__builtins__"    -> <<"_","_","b","u","i","l","t","i","n","s","_","_">>
    [] n = "bob"             -> <<"b","o","b">>
    [] n = "_library"        -> <<"_","l","i","b","r","a","r","y">>
    [] n = "version"         -> <<"v","e","r","s","i","o","n">>
    [] n = "__version__"     -> <<"_","_","v","e","r","s","i","o","n","_","_">>
    [] n = "__api_version__" -> <<"_","_","a","p","i","_","v","e","r","s","i","o","n","_","_">>
    [] n = "auxiliar"        -> <<"a","u","x","i","l","i","a","r">>
    [] n = "load_jets"       -> <<"l","o","a","d","_","j","e","t","s">>
    [] n = "save_jets"       -> <<"s","a","v","e","_","j","e","t","s">>
    [] n = "get_config"      -> <<"g","e","t","_","c","o","n","f","i","g">>
    [] n = "__all__"         -> <<"_","_","a","l","l","_","_">>
    [] n = "_"               -> <<"_">>
    [] n = "_config"         -> <<"_","c","o","n","f","i","g">>
    [] n = "Jet"             -> <<"J","e","t">>
    [] n = "_cache"          -> <<"_","c","a","c","h","e">>

\* str.startswith('_')
StartsWithUnderscore(n) == Len(Chars(n)) >= 1 /\ Chars(n)[1] = "_"

\* s < t for Python strings
StrLess(s, t) ==
  LET a == Chars(s)
      b == Chars(t)
  IN \E i \in 1..(Len(a) + 1) :
       /\ \A j \in 1..(i - 1) : j <= Len(b) /\ a[j] = b[j]
       /\ \/ i = Len(a) + 1 /\ Len(b) >= i
          \/ i <= Len(a) /\ i <= Len(b) /\ Ord(a[i]) < Ord(b[i])

\* sorted(): insertion into an ascending list, stable
RECURSIVE InsertSorted(_, _)
InsertSorted(n, s) ==
  IF s = <<>> THEN <<n>>
  ELSE IF StrLess(n, Head(s)) THEN <<n>> \o s
  ELSE <<Head(s)>> \o InsertSorted(n, Tail(s))

RECURSIVE Sorted(_)
Sorted(s) ==
  IF s = <<>> THEN <<>> ELSE InsertSorted(s[Len(s)], Sorted(SubSeq(s, 1, Len(s) - 1)))

SeqSet(s) == {s[i] : i \in 1..Len(s)}

\* ------------------------------------------------------------ namespace
Keys(d) == [i \in 1..Len(d) |-> d[i].name]
KeySet(d) == {d[i].name : i \in 1..Len(d)}
Lookup(d, n) == d[CHOOSE i \in 1..Len(d) : d[i].name = n].val

\* d[n] = v: an existing key keeps its position, a new key goes last
Bind(d, n, v) ==
  IF n \in KeySet(d)
  THEN [i \in 1..Len(d) |-> IF d[i].name = n THEN [name |-> n, val |-> v] ELSE d[i]]
  ELSE Append(d, [name |-> n, val |-> v])

RECURSIVE BindAll(_, _)
BindAll(d, items) ==
  IF items = <<>> THEN d
  ELSE BindAll(Bind(d, Head(items).name, Head(items).val), Tail(items))

\* Variant of Dir: the names in the order they were bound, unsorted.
DirUnsorted(d) == Keys(d)

\* dir() at module level: the sorted names of the module's globals
Dir(d) == Sorted(Keys(d))

\* ------------------------------------------------------------- objects
PackageName == "bob.ip.gabor"
BobPackage == "<module bob>"
LibraryModule == "<module bob.ip.gabor._library>"
VersionModule == "<module bob.ip.gabor.version>"
AuxiliarModule == "<module bob.ip.gabor.auxiliar>"
GetConfigFunction == "<function bob.ip.gabor.get_config>"

\* getattr(module, name) for the modules the body reads attributes of
GetAttr(obj, n) ==
  CASE obj = LibraryModule  -> "bob.ip.gabor._library." \o n
    [] obj = VersionModule  -> "bob.ip.gabor.version." \o n
    [] obj = AuxiliarModule -> "bob.ip.gabor.auxiliar." \o n
    [] OTHER                -> "AttributeError"

\* globals of a module object the import system has just created for the package
InitialGlobals ==
  << [name |-> "__name__",     val |-> PackageName],
     [name |-> "__doc__",      val |-> "None"],
     [name |-> "__package__",  val |-> PackageName],
     [name |-> "__path__",     val |-> "<path bob/ip/gabor>"],
     [name |-> "__file__",     val |-> "bob/ip/gabor/__init__.py"],
     [name |-> "__builtins__", val |-> "<builtins>"] >>

\* ---------------------------------------------------------- environment
\* What each statement needs from outside the file.
Collaborators ==
  {"bob.io.base", "bob.sp", "bob.extension", "libbob_ip_gabor",
   "bob.ip.gabor._library", "bob.ip.gabor.version", "bob.ip.gabor.auxiliar"}

\* Names a native extension dictionary is drawn from: a class, the two names
\* the helper module also defines, the name of a sibling submodule, and a
\* private name.
NativeNames == {"Jet", "load_jets", "save_jets", "version", "_cache"}

NoDup(s) == \A i, j \in 1..Len(s) : i # j => s[i] # s[j]
LibDicts ==
  {s \in UNION {[1..k -> NativeNames] : k \in 0..MaxLibNames} : NoDup(s)}

NoError == <<>>
NoResult == [kind |-> "none", args |-> <<>>]

\* Variants of Program with one statement moved.
\* The helper import placed before the star import.
ProgramAuxiliarBeforeStar ==
  << "import bob.io.base",
     "import bob.sp",
     "import bob.extension",
     "bob.extension.load_bob_library",
     "from .auxiliar import load_jets, save_jets",
     "from ._library import *",
     "from . import version",
     "from .version import module as __version__",
     "from .version import api as __api_version__",
     "def get_config",
     "__all__ = [...]" >>

\* The star import placed before the library is attached.
ProgramStarBeforeLoad ==
  << "import bob.io.base",
     "import bob.sp",
     "from ._library import *",
     "import bob.extension",
     "bob.extension.load_bob_library",
     "from . import version",
     "from .version import module as __version__",
     "from .version import api as __api_version__",
     "from .auxiliar import load_jets, save_jets",
     "def get_config",
     "__all__ = [...]" >>

\* get_config defined after __all__ is computed.
ProgramAllBeforeDef ==
  << "import bob.io.base",
     "import bob.sp",
     "import bob.extension",
     "bob.extension.load_bob_library",
     "from ._library import *",
     "from . import version",
     "from .version import module as __version__",
     "from .version import api as __api_version__",
     "from .auxiliar import load_jets, save_jets",
     "__all__ = [...]",
     "def get_config" >>

\* --------------------------------------------------------------- program
\* The statements of the module body, in source order.
Program ==
  << "import bob.io.base",
     "import bob.sp",
     "import bob.extension",
     "bob.extension.load_bob_library",
     "from ._library import *",
     "from . import version",
     "from .version import module as __version__",
     "from .version import api as __api_version__",
     "from .auxiliar import load_jets, save_jets",
     "def get_config",
     "__all__ = [...]" >>

At(stmt) == pc # 0 /\ Program[pc] = stmt

\* The statement at pc ran to its end: control moves to the next one, and
\* after the last one the import system marks the package as loaded.
Complete(stmt) ==
  /\ done' = Append(done, stmt)
  /\ pc' = IF pc = Len(Program) THEN 0 ELSE pc + 1
  /\ sysmod' = IF pc = Len(Program) THEN "loaded" ELSE sysmod
  /\ error' = error

\* The statement at pc raised: nothing in the body catches, so the exception
\* leaves the module body and the import system drops the package from its
\* cache before handing the exception to the importer.
Propagate(exc) ==
  /\ error' = exc
  /\ pc' = 0
  /\ sysmod' = "absent"
  /\ done' = done

Init ==
  /\ py \in {2, 3}
  /\ broken \in Collaborators \cup {"none"}
  /\ libDict \in LibDicts
  /\ libHasAll \in BOOLEAN
  /\ utilFails \in BOOLEAN
  /\ sysmod = "absent"
  /\ subs = {}
  /\ ns = <<>>
  /\ pc = 0
  /\ done = <<>>
  /\ error = NoError
  /\ __all__ = <<>>
  /\ nimports = 0
  /\ result = NoResult
  /\ lastCall = "none"

\* A client executes "import bob.ip.gabor" and the package is not cached: a
\* module object is created, entered in the cache and its body starts.
ImportFresh ==
  /\ sysmod = "absent"
  /\ nimports < MaxImports
  /\ nimports' = nimports + 1
  /\ sysmod' = "initializing"
  /\ ns' = InitialGlobals
  /\ pc' = 1
  /\ done' = <<>>
  /\ error' = NoError
  /\ __all__' = <<>>
  /\ UNCHANGED <<env, subs, result, lastCall>>

\* Variant of ImportCached: the cache is not consulted and the body runs again.
ImportReexecute ==
  /\ sysmod = "loaded"
  /\ nimports < MaxImports
  /\ nimports' = nimports + 1
  /\ sysmod' = "initializing"
  /\ ns' = InitialGlobals
  /\ pc' = 1
  /\ done' = <<>>
  /\ error' = NoError
  /\ __all__' = <<>>
  /\ UNCHANGED <<env, subs, result, lastCall>>

\* A client executes "import bob.ip.gabor" and the package is cached: the
\* cached module is returned and the body does not run.
ImportCached ==
  /\ sysmod = "loaded"
  /\ nimports < MaxImports
  /\ nimports' = nimports + 1
  /\ UNCHANGED <<env, sysmod, subs, ns, pc, done, error, __all__, result, lastCall>>

\* "import bob.<x>" binds the top-level package bob.
ImportAbsolute(stmt, module) ==
  /\ At(stmt)
  /\ IF broken = module
     THEN Propagate(<<"ImportError", module>>) /\ ns' = ns
     ELSE Complete(stmt) /\ ns' = Bind(ns, "bob", BobPackage)
  /\ UNCHANGED <<env, subs, __all__, nimports, result, lastCall>>

ImportBobIoBase == ImportAbsolute("import bob.io.base", "bob.io.base")
ImportBobSp == ImportAbsolute("import bob.sp", "bob.sp")
ImportBobExtension == ImportAbsolute("import bob.extension", "bob.extension")

\* Variant of LoadBobLibrary: the call wrapped in try/except that passes.
LoadBobLibrarySwallow ==
  /\ At("bob.extension.load_bob_library")
  /\ Complete("bob.extension.load_bob_library")
  /\ UNCHANGED <<env, subs, ns, __all__, nimports, result, lastCall>>

\* bob.extension.load_bob_library('bob.ip.gabor', __file__): binds nothing.
LoadBobLibrary ==
  /\ At("bob.extension.load_bob_library")
  /\ IF broken = "libbob_ip_gabor"
     THEN Propagate(<<"OSError", "libbob_ip_gabor">>)
     ELSE Complete("bob.extension.load_bob_library")
  /\ UNCHANGED <<env, subs, ns, __all__, nimports, result, lastCall>>

\* Import of a submodule of the package: when it is loaded now, the import
\* system binds it as an attribute of the package; a submodule already in
\* the module cache is returned as it is and nothing is bound.
WithSubmodule(d, module, short, obj) ==
  IF module \in subs THEN d ELSE Bind(d, short, obj)

CannotLoad(module) == module \notin subs /\ broken = module

\* Names "from _library import *" copies: the extension's __all__ when it
\* defines one, otherwise its names that do not start with an underscore.
IsPublic(n) == ~StartsWithUnderscore(n)
StarNames == IF libHasAll THEN libDict ELSE SelectSeq(libDict, IsPublic)
StarItems ==
  [i \in 1..Len(StarNames) |->
     [name |-> StarNames[i], val |-> GetAttr(LibraryModule, StarNames[i])]]

FromLibraryImportStar ==
  /\ At("from ._library import *")
  /\ IF CannotLoad("bob.ip.gabor._library")
     THEN /\ Propagate(<<"ImportError", "bob.ip.gabor._library">>)
          /\ UNCHANGED <<ns, subs>>
     ELSE /\ Complete("from ._library import *")
          /\ subs' = subs \cup {"bob.ip.gabor._library"}
          /\ ns' = BindAll(WithSubmodule(ns, "bob.ip.gabor._library",
                                         "_library", LibraryModule),
                           StarItems)
  /\ UNCHANGED <<env, __all__, nimports, result, lastCall>>

\* "from . import version": an attribute of that name on the package is
\* taken as it is; otherwise the submodule is imported.  A submodule that is
\* cached but not an attribute of the package is found through the module
\* cache by interpreter line 3 and is an ImportError on line 2.
FromImportVersion ==
  /\ At("from . import version")
  /\ IF "version" \in KeySet(ns)
     THEN /\ Complete("from . import version")
          /\ ns' = Bind(ns, "version", Lookup(ns, "version"))
          /\ subs' = subs
     ELSE IF CannotLoad("bob.ip.gabor.version")
             \/ ("bob.ip.gabor.version" \in subs /\ py = 2)
     THEN /\ Propagate(<<"ImportError", "bob.ip.gabor.version">>)
          /\ UNCHANGED <<ns, subs>>
     ELSE /\ Complete("from . import version")
          /\ subs' = subs \cup {"bob.ip.gabor.version"}
          /\ ns' = Bind(ns, "version", VersionModule)
  /\ UNCHANGED <<env, __all__, nimports, result, lastCall>>

\* "from .<module> import <attr> as <name>, ...": items are <<attr, name>>
RECURSIVE FromItems(_, _)
FromItems(obj, items) ==
  IF items = <<>> THEN <<>>
  ELSE <<[name |-> Head(items)[2], val |-> GetAttr(obj, Head(items)[1])]>>
       \o FromItems(obj, Tail(items))

FromSubmoduleImport(stmt, module, short, obj, items) ==
  /\ At(stmt)
  /\ IF CannotLoad(module)
     THEN /\ Propagate(<<"ImportError", module>>)
          /\ UNCHANGED <<ns, subs>>
     ELSE /\ Complete(stmt)
          /\ subs' = subs \cup {module}
          /\ ns' = BindAll(WithSubmodule(ns, module, short, obj),
                           FromItems(obj, items))
  /\ UNCHANGED <<env, __all__, nimports, result, lastCall>>

ImportVersionModule ==
  FromSubmoduleImport("from .version import module as __version__",
                      "bob.ip.gabor.version", "version", VersionModule,
                      << <<"module", "__version__">> >>)

ImportVersionApi ==
  FromSubmoduleImport("from .version import api as __api_version__",
                      "bob.ip.gabor.version", "version", VersionModule,
                      << <<"api", "__api_version__">> >>)

FromAuxiliarImport ==
  FromSubmoduleImport("from .auxiliar import load_jets, save_jets",
                      "bob.ip.gabor.auxiliar", "auxiliar", AuxiliarModule,
                      << <<"load_jets", "load_jets">>, <<"save_jets", "save_jets">> >>)

\* def get_config(): binds the function object.
DefGetConfig ==
  /\ At("def get_config")
  /\ Complete("def get_config")
  /\ ns' = Bind(ns, "get_config", GetConfigFunction)
  /\ UNCHANGED <<env, subs, __all__, nimports, result, lastCall>>

\* Variant of PublicNames: the test written as startswith('__').
StartsWithDunder(n) ==
  Len(Chars(n)) >= 2 /\ Chars(n)[1] = "_" /\ Chars(n)[2] = "_"
IsNotDunder(n) == ~StartsWithDunder(n)
PublicNamesDunderOnly(d) == SelectSeq(Dir(d), IsNotDunder)

\* [_ for _ in dir() if not _.startswith('_')]
PublicNames(d) == SelectSeq(Dir(d), IsPublic)

\* The loop variable of the list comprehension: on interpreter line 2 it is a
\* global of the module and stays bound to the last name dir() listed.
LoopVariable == "_"
LeakLoopVariable(d) ==
  IF py = 2 /\ Dir(d) # <<>>
  THEN Bind(d, LoopVariable, Dir(d)[Len(Dir(d))])
  ELSE d

\* __all__ = [_ for _ in dir() if not _.startswith('_')]
ComputeAll ==
  /\ At("__all__ = [...]")
  /\ Complete("__all__ = [...]")
  /\ __all__' = PublicNames(ns)
  /\ ns' = Bind(LeakLoopVariable(ns), "__all__", "<list __all__>")
  /\ UNCHANGED <<env, subs, nimports, result, lastCall>>

\* -------------------------------------------------------- after loading
\* bob.extension.get_config(name, externals, api): the formatting utility.
ExtensionGetConfig(name, externals, api) ==
  IF utilFails
  THEN [kind |-> "raise", args |-> <<"DistributionNotFound", name>>]
  ELSE [kind |-> "return", args |-> <<name, externals, api>>]

\* Variant of GetConfigBody: version.module passed where version.api belongs.
GetConfigBodyModule(d) ==
  IF "bob" \notin KeySet(d) \/ "version" \notin KeySet(d)
  THEN [kind |-> "raise", args |-> <<"NameError">>]
  ELSE IF Lookup(d, "bob") # BobPackage \/ Lookup(d, "version") # VersionModule
  THEN [kind |-> "raise", args |-> <<"AttributeError">>]
  ELSE ExtensionGetConfig(Lookup(d, "__name__"),
                          GetAttr(Lookup(d, "version"), "externals"),
                          GetAttr(Lookup(d, "version"), "module"))

\* The body of get_config(): the globals bob, __name__ and version are
\* looked up when the function is called.
GetConfigBody(d) ==
  IF "bob" \notin KeySet(d) \/ "version" \notin KeySet(d)
  THEN [kind |-> "raise", args |-> <<"NameError">>]
  ELSE IF Lookup(d, "bob") # BobPackage \/ Lookup(d, "version") # VersionModule
  THEN [kind |-> "raise", args |-> <<"AttributeError">>]
  ELSE ExtensionGetConfig(Lookup(d, "__name__"),
                          GetAttr(Lookup(d, "version"), "externals"),
                          GetAttr(Lookup(d, "version"), "api"))

\* Variant of GetConfig: the string is also kept in a module global.
GetConfigBinds ==
  /\ sysmod = "loaded"
  /\ "get_config" \in KeySet(ns)
  /\ Lookup(ns, "get_config") = GetConfigFunction
  /\ result' = GetConfigBody(ns)
  /\ lastCall' = "get_config"
  /\ ns' = Bind(ns, "_config", "<str>")
  /\ UNCHANGED <<env, sysmod, subs, pc, done, error, __all__, nimports>>

\* A client calls bob.ip.gabor.get_config().
GetConfig ==
  /\ sysmod = "loaded"
  /\ "get_config" \in KeySet(ns)
  /\ Lookup(ns, "get_config") = GetConfigFunction
  /\ result' = GetConfigBody(ns)
  /\ lastCall' = "get_config"
  /\ ns' = ns
  /\ UNCHANGED <<env, sysmod, subs, pc, done, error, __all__, nimports>>

\* A client calls one of the other public callables of the package
\* (load_jets, save_jets, a native class or function).
Callable(n) ==
  /\ n \in KeySet(ns)
  /\ n \in SeqSet(__all__)
  /\ Lookup(ns, n) \in {GetAttr(AuxiliarModule, n), GetAttr(LibraryModule, n)}

CallReexported(n) ==
  /\ sysmod = "loaded"
  /\ Callable(n)
  /\ lastCall' = n
  /\ UNCHANGED <<env, sysmod, subs, ns, pc, done, error, __all__, nimports, result>>

Next ==
  \/ ImportFresh
  \/ ImportCached
  \/ ImportBobIoBase
  \/ ImportBobSp
  \/ ImportBobExtension
  \/ LoadBobLibrary
  \/ FromLibraryImportStar
  \/ FromImportVersion
  \/ ImportVersionModule
  \/ ImportVersionApi
  \/ FromAuxiliarImport
  \/ DefGetConfig
  \/ ComputeAll
  \/ GetConfig
  \/ \E n \in NativeNames \cup {"load_jets", "save_jets"} : CallReexported(n)

Spec == Init /\ [][Next]_vars

\* ================================================================ claims
\* What a later importer can see of the package: the module the cache holds.
Visible == IF sysmod = "absent" THEN <<>> ELSE ns

\* Names bound by the statements that follow the library attachment.
LaterNames ==
  {"_library", "version", "__version__", "__api_version__", "auxiliar",
   "load_jets", "save_jets", "get_config", "__all__", "_"} \cup NativeNames

\* The four responsibilities of the initialization, in their order.
Phase(stmt) ==
  CASE stmt \in {"import bob.io.base", "import bob.sp"} -> 1
    [] stmt \in {"import bob.extension", "bob.extension.load_bob_library"} -> 2
    [] stmt \in {"from ._library import *", "from . import version",
                 "from .version import module as __version__",
                 "from .version import api as __api_version__",
                 "from .auxiliar import load_jets, save_jets"} -> 3
    [] stmt \in {"def get_config", "__all__ = [...]"} -> 4

\* C1: when __all__ is computed, every bound name that starts with an
\* underscore is left out of it, every bound name that does not is in it, and
\* it holds no name that is not bound.
C1_AllIsThePublicNames ==
  [][At("__all__ = [...]") =>
       /\ \A n \in KeySet(ns) :
            /\ StartsWithUnderscore(n) => n \notin SeqSet(__all__')
            /\ ~StartsWithUnderscore(n) => n \in SeqSet(__all__')
       /\ SeqSet(__all__') \subseteq KeySet(ns)]_vars

C1_Witness ==
  /\ "__all__" \in KeySet(ns)
  /\ "_cache" \in KeySet(ns)
  /\ "Jet" \in SeqSet(__all__)

\* C2: when the native artifact is absent, no statement after the library
\* attachment ever runs, and an import that has ended has raised the loader's
\* error and left nothing of the package for a later importer to see.
C2_MissingArtifactLeavesNothing ==
  broken = "libbob_ip_gabor" =>
    /\ sysmod # "loaded"
    /\ KeySet(ns) \cap LaterNames = {}
    /\ subs = {}
    /\ __all__ = <<>>
    /\ Len(done) <= 3
    /\ (nimports > 0 /\ pc = 0) =>
         /\ error = <<"OSError", "libbob_ip_gabor">>
         /\ sysmod = "absent"
         /\ Visible = <<>>
         /\ done = <<"import bob.io.base", "import bob.sp", "import bob.extension">>

C2_Witness ==
  /\ broken = "libbob_ip_gabor"
  /\ nimports = 2
  /\ pc = 0
  /\ error # NoError

\* C3: after a successful import load_jets and save_jets are bound to the
\* functions of the helper module auxiliar, whatever the native library
\* exported under those names.
C3_JetHelpersComeFromAuxiliar ==
  sysmod = "loaded" =>
    /\ {"load_jets", "save_jets"} \subseteq KeySet(ns)
    /\ Lookup(ns, "load_jets") = "bob.ip.gabor.auxiliar.load_jets"
    /\ Lookup(ns, "save_jets") = "bob.ip.gabor.auxiliar.save_jets"

C3_Witness ==
  /\ sysmod = "loaded"
  /\ {"load_jets", "save_jets"} \subseteq SeqSet(StarNames)

\* C4: importing the loaded package again runs no statement and changes
\* neither the namespace nor __all__, and get_config() keeps returning what
\* it returned before.
C4_SecondImportChangesNothing ==
  [][/\ (sysmod = "loaded" /\ nimports' # nimports) =>
          /\ ns' = ns
          /\ __all__' = __all__
          /\ done' = done
          /\ subs' = subs
          /\ pc' = 0
          /\ sysmod' = "loaded"
     /\ result # NoResult => result' = result]_vars

C4_Witness ==
  /\ sysmod = "loaded"
  /\ nimports = 2
  /\ lastCall = "get_config"
  /\ result.kind = "return"

\* C5: once the package is loaded, a call of get_config or of a re-exported
\* function changes neither __all__ nor the set of names bound in the package.
C5_CallsLeaveTheNamespaceAlone ==
  [][(sysmod = "loaded" /\ nimports' = nimports) =>
       /\ KeySet(ns') = KeySet(ns)
       /\ __all__' = __all__]_vars

C5_Witness ==
  /\ sysmod = "loaded"
  /\ result # NoResult
  /\ lastCall = "load_jets"

\* C7: a call of get_config() yields what the formatting utility yields for
\* the package name, version.externals and version.api, be it a string or an
\* exception, and changes nothing of the package.
C7_GetConfigDelegates ==
  [][(sysmod = "loaded" /\ nimports' = nimports /\ lastCall' = "get_config") =>
       /\ result' = ExtensionGetConfig("bob.ip.gabor",
                                       "bob.ip.gabor.version.externals",
                                       "bob.ip.gabor.version.api")
       /\ UNCHANGED <<ns, __all__, subs, sysmod, pc, done, error>>]_vars

C7_Witness ==
  /\ lastCall = "get_config"
  /\ result.kind = "return"
  /\ "version" \in SeqSet(StarNames)

\* C8: the statements run in the order dependency activation, library
\* attachment, re-export, bindings, none of them twice and none skipped; a
\* failure ends the run with the collaborator's exception and no later
\* statement runs; a loaded package has run them all.
C8_LinearInitialization ==
  /\ \A i, j \in 1..Len(done) :
       i < j => (Phase(done[i]) <= Phase(done[j]) /\ done[i] # done[j])
  /\ pc # 0 => (pc = Len(done) + 1 /\ sysmod = "initializing" /\ error = NoError)
  /\ sysmod = "loaded" => (Len(done) = 11 /\ error = NoError /\ pc = 0)
  /\ (nimports > 0 /\ sysmod = "absent") =>
       /\ pc = 0
       /\ Len(done) < 11
       /\ Len(error) = 2
       /\ error[2] \in Collaborators
       /\ nimports = 1 => error[2] = broken

C8_Witness ==
  /\ sysmod = "absent"
  /\ error = <<"ImportError", "bob.ip.gabor.auxiliar">>
  /\ Len(done) = 8

\* C9: once the package is loaded __all__ holds exactly the bound names that
\* do not start with an underscore, among them get_config, version,
\* load_jets, save_jets and bob; the names bound after it was computed are
\* not in it.
C9_AllCoversEveryPublicName ==
  sysmod = "loaded" =>
    /\ SeqSet(__all__) = {n \in KeySet(ns) : ~StartsWithUnderscore(n)}
    /\ {"get_config", "version", "load_jets", "save_jets", "bob"}
         \subseteq SeqSet(__all__)
    /\ {"__all__", "_"} \cap SeqSet(__all__) = {}

C9_Witness ==
  /\ sysmod = "loaded"
  /\ "_" \in KeySet(ns)
  /\ "get_config" \in SeqSet(__all__)

\* C10: __all__ is in strictly ascending order of Python's string comparison,
\* so it has no duplicate entry.
C10_AllIsSorted ==
  \A i, j \in 1..Len(__all__) :
    i < j => StrLess(__all__[i], __all__[j])

C10_Witness ==
  /\ sysmod = "loaded"
  /\ __all__[1] = "Jet"
  /\ Keys(ns)[7] = "bob"

====
